---------------------------- MODULE Spec2Model ----------------------------
(***************************************************************************)
(* Adaptive cache and status polling engine of the account tracker:        *)
(*   src/api_manager.py  SmartCacheManager, OptimizedAPIManager            *)
(*   src/core.py         wait_for_status_change                            *)
(* Time is an integer clock `now` (datetime.now()); a timestamp is the     *)
(* value of the clock when it was taken, NoTime when the field is None.    *)
(* An Optional[List] is <<>> for None and <<list>> for a list.             *)
(***************************************************************************)
EXTENDS Integers, Sequences, FiniteSets, TLC

(***************************************************************************)
(* Bounds of the model.                                                    *)
(***************************************************************************)
\* the clock stops at MaxTime
MaxTime == 2
\* largest changes_detected fed to adjust_ttl
MaxChanges == 7
\* cap of consecutive_quiet_cycles (the code lets it grow without bound)
MaxQuiet == 4
\* longest recorded sequence of adjust_ttl inputs
MaxFeed == 4
\* deepest recursion of fetch_all_accounts_batch on 403/419 (the code sets
\* no limit of its own)
MaxRetryDepth == 2
\* longest status_changes of a tracking run (the code's bound is the 40
\* attempts)
MaxStatusChanges == 2
\* the entries of the largest monitored file
ScanEntries == 7
\* the number of e-mails in the queues of the Sheets workers at one time
MaxQueued == 2

(***************************************************************************)
(* config.py is not among the sources: the levels are abstract clock ticks *)
(* that keep the order MIN < NORMAL < MAX the names and spec section 4.2   *)
(* give.                                                                   *)
(***************************************************************************)
CACHE_TTL_MIN == 1
CACHE_TTL_NORMAL == 2
CACHE_TTL_MAX == 3
BURST_MODE_DURATION == 2
CSRF_TOKEN_TTL == 2

None == <<>>
Some(x) == <<x>>
NoTime == -1

\* Python truthiness of an Optional[List]: neither None nor an empty list
Truthy(opt) == opt # None /\ opt[1] # <<>>

(***************************************************************************)
(* Remote data.  A raw row of the updateSenderPage response is a sequence  *)
(* of fields (index 0 idAccount, 2 Sender, 6 Status in the code, 1, 3, 7   *)
(* here); "" stands for every falsy field (null, 0, "").                   *)
(***************************************************************************)
Row(id, sender, status) == <<id, "img", sender, "", "", "", status>>

RawResponses ==
    { <<>>,
      << <<"A", "img">> >>,
      << Row("", "e1", "LOGGING") >>,
      << Row("A", "e1", "LOGGING") >>,
      << Row("A", "e1", "AVAILABLE") >>,
      << <<"A", "img", "E1">> >>,
      << Row("B", "e2", "ACTIVE"), Row("A", "e1", "WRONG DETAILS") >> }

Field(account, idx) ==
    IF idx <= Len(account) /\ account[idx] # "" THEN account[idx] ELSE ""

RECURSIVE ParseRows(_)
ParseRows(accounts) ==
    IF accounts = <<>> THEN <<>>
    ELSE LET account == Head(accounts)
             rest == ParseRows(Tail(accounts))
         IN  IF Len(account) > 2
             THEN << [idAccount |-> Field(account, 1),
                      Sender |-> Field(account, 3),
                      Status |-> Field(account, 7)] >> \o rest
             ELSE rest

Snapshots == { ParseRows(r) : r \in RawResponses }

\* the snapshots handed to update_cache directly: an empty and two non-empty
CacheData ==
    { <<>>,
      ParseRows(<< Row("A", "e1", "LOGGING") >>),
      ParseRows(<< Row("A", "e1", "AVAILABLE") >>) }

AccountIds == {"A", "B"}

VARIABLES
    now,
    cache, cache_timestamp, cache_ttl,
    burst_mode_active, burst_mode_started,
    consecutive_quiet_cycles,
    last_successful_cache, last_successful_timestamp,
    burst_targets,
    capture_ttl,
    op,
    fed, ttl_trace,
    csrf_token, csrf_expires_at,
    fx,
    trk, monitored, disk,
    mon,
    pending, retry, failed

\* SmartCacheManager's fields
cacheVars == <<cache, cache_timestamp, cache_ttl, burst_mode_active,
               burst_mode_started, consecutive_quiet_cycles,
               last_successful_cache, last_successful_timestamp,
               burst_targets>>
\* history: the TTL in effect when the last successful snapshot was stored,
\* the last operation and its arguments, the adjust_ttl inputs and TTL trace
histVars == <<fed, ttl_trace>>
\* OptimizedAPIManager's fields, and fx: for every task its call of
\* fetch_all_accounts_batch or add_sender in progress (the awaited request,
\* the recursion depth, the value returned and the branch that returned it)
apiVars == <<csrf_token, csrf_expires_at, fx>>
\* wait_for_status_change's position and locals, and the monitored
\* accounts file
coreVars == <<trk, monitored, disk, mon>>
\* the queues of the Google Sheets workers: data/pending.json, retry.json
\* and failed.json
sheetVars == <<pending, retry, failed>>
vars == <<now, cacheVars, capture_ttl, op, histVars, apiVars, coreVars,
          sheetVars>>

\* the tasks that call the API manager directly
Callers == {"c1", "c2"}
Procs == Callers \cup {"trk", "mon"}

slotVars == <<cache, cache_timestamp, last_successful_cache,
              last_successful_timestamp>>
burstVars == <<burst_mode_active, burst_mode_started, burst_targets>>
\* continuous_monitor's position and locals, and whether the monitored
\* accounts file can be read and written
monVars == <<mon, disk>>
ttlVars == <<cache_ttl, consecutive_quiet_cycles>>

(***************************************************************************)
(* SmartCacheManager                                                       *)
(***************************************************************************)
CacheInit ==
    /\ cache = None
    /\ cache_timestamp = NoTime
    /\ cache_ttl = CACHE_TTL_NORMAL
    /\ burst_mode_active = FALSE
    /\ burst_mode_started = NoTime
    /\ consecutive_quiet_cycles = 0
    /\ last_successful_cache = None
    /\ last_successful_timestamp = NoTime
    /\ burst_targets = {}

is_cache_valid_NoBurstCheck ==
    IF cache = None \/ cache_timestamp = NoTime THEN FALSE
    ELSE (now - cache_timestamp) < cache_ttl

is_cache_valid_InclusiveAge ==
    IF cache = None \/ cache_timestamp = NoTime THEN FALSE
    ELSE IF burst_mode_active THEN FALSE
    ELSE (now - cache_timestamp) <= cache_ttl

is_cache_valid ==
    IF cache = None \/ cache_timestamp = NoTime THEN FALSE
    ELSE IF burst_mode_active THEN FALSE
    ELSE (now - cache_timestamp) < cache_ttl

activate_burst_mode_Restart(account_id) ==
    /\ burst_mode_active' = TRUE
    /\ burst_mode_started' = now
    /\ burst_targets' = burst_targets \cup {account_id}

activate_burst_mode(account_id) ==
    /\ IF ~burst_mode_active
       THEN /\ burst_mode_active' = TRUE
            /\ burst_mode_started' = now
       ELSE UNCHANGED <<burst_mode_active, burst_mode_started>>
    /\ burst_targets' = burst_targets \cup {account_id}

check_burst_mode_KeepTargets ==
    IF ~burst_mode_active THEN UNCHANGED burstVars
    ELSE IF (now - burst_mode_started) >= BURST_MODE_DURATION
         THEN /\ burst_mode_active' = FALSE
              /\ burst_mode_started' = NoTime
              /\ UNCHANGED burst_targets
         ELSE UNCHANGED burstVars

check_burst_mode ==
    IF ~burst_mode_active THEN UNCHANGED burstVars
    ELSE IF (now - burst_mode_started) >= BURST_MODE_DURATION
         THEN /\ burst_mode_active' = FALSE
              /\ burst_mode_started' = NoTime
              /\ burst_targets' = {}
         ELSE UNCHANGED burstVars

adjust_ttl_NoReset(changes_detected) ==
    IF changes_detected >= 5
    THEN /\ cache_ttl' = CACHE_TTL_MIN
         /\ UNCHANGED consecutive_quiet_cycles
    ELSE IF changes_detected >= 2
    THEN /\ cache_ttl' = CACHE_TTL_NORMAL
         /\ UNCHANGED consecutive_quiet_cycles
    ELSE /\ consecutive_quiet_cycles' = consecutive_quiet_cycles + 1
         /\ cache_ttl' = IF consecutive_quiet_cycles' >= 3
                         THEN CACHE_TTL_MAX ELSE cache_ttl

adjust_ttl_MaxEveryQuiet(changes_detected) ==
    IF changes_detected >= 5
    THEN /\ cache_ttl' = CACHE_TTL_MIN
         /\ consecutive_quiet_cycles' = 0
    ELSE IF changes_detected >= 2
    THEN /\ cache_ttl' = CACHE_TTL_NORMAL
         /\ consecutive_quiet_cycles' = 0
    ELSE /\ consecutive_quiet_cycles' = consecutive_quiet_cycles + 1
         /\ cache_ttl' = CACHE_TTL_MAX

adjust_ttl_NormalKeepsTtl(changes_detected) ==
    IF changes_detected >= 5
    THEN /\ cache_ttl' = CACHE_TTL_MIN
         /\ consecutive_quiet_cycles' = 0
    ELSE IF changes_detected >= 2
    THEN /\ UNCHANGED cache_ttl
         /\ consecutive_quiet_cycles' = 0
    ELSE /\ consecutive_quiet_cycles' = consecutive_quiet_cycles + 1
         /\ cache_ttl' = IF consecutive_quiet_cycles' >= 3
                         THEN CACHE_TTL_MAX ELSE cache_ttl

adjust_ttl(changes_detected) ==
    IF changes_detected >= 5
    THEN /\ cache_ttl' = CACHE_TTL_MIN
         /\ consecutive_quiet_cycles' = 0
    ELSE IF changes_detected >= 2
    THEN /\ cache_ttl' = CACHE_TTL_NORMAL
         /\ consecutive_quiet_cycles' = 0
    ELSE /\ consecutive_quiet_cycles' = consecutive_quiet_cycles + 1
         /\ cache_ttl' = IF consecutive_quiet_cycles' >= 3
                         THEN CACHE_TTL_MAX ELSE cache_ttl

update_cache_FailureStoresData(new_data, success) ==
    IF success
    THEN /\ cache' = Some(new_data)
         /\ cache_timestamp' = now
         /\ last_successful_cache' = Some(new_data)
         /\ last_successful_timestamp' = now
    ELSE /\ cache' = Some(new_data)
         /\ cache_timestamp' = now
         /\ UNCHANGED <<last_successful_cache, last_successful_timestamp>>

update_cache(new_data, success) ==
    IF success
    THEN /\ cache' = Some(new_data)
         /\ cache_timestamp' = now
         /\ last_successful_cache' = Some(new_data)
         /\ last_successful_timestamp' = now
    ELSE /\ IF Truthy(last_successful_cache)
            THEN /\ cache' = last_successful_cache
                 /\ cache_timestamp' = last_successful_timestamp
            ELSE UNCHANGED <<cache, cache_timestamp>>
         /\ UNCHANGED <<last_successful_cache, last_successful_timestamp>>

\* history of update_cache: the TTL in effect when the snapshot was captured
CaptureTtl(success) ==
    capture_ttl' = IF success THEN cache_ttl ELSE capture_ttl

(***************************************************************************)
(* The operations of SmartCacheManager called in any order, and the clock. *)
(***************************************************************************)
\* a task that is running, not suspended at an await: nothing else happens
\* until it reaches its next await
Running ==
    \/ trk.pc \in {"disc", "track", "track_search"}
    \/ fx["trk"].pc = "done"
    \/ mon.pc = "scan"
    \/ fx["mon"].pc = "done"

Tick ==
    /\ now < MaxTime
    /\ ~Running
    /\ now' = now + 1
    /\ op' = [name |-> "tick"]
    /\ UNCHANGED <<sheetVars, cacheVars, capture_ttl, histVars, apiVars,
                   coreVars>>

UpdateCache(new_data, success) ==
    /\ update_cache(new_data, success)
    /\ CaptureTtl(success)
    /\ op' = [name |-> "update_cache", new_data |-> new_data, success |-> success]
    /\ UNCHANGED <<sheetVars, now, ttlVars, burstVars, histVars, apiVars, coreVars>>

AdjustTtl(n) ==
    /\ consecutive_quiet_cycles < MaxQuiet
    /\ adjust_ttl(n)
    /\ op' = [name |-> "adjust_ttl", n |-> n, old_ttl |-> cache_ttl]
    /\ UNCHANGED <<sheetVars, now, slotVars, burstVars, capture_ttl, histVars, apiVars,
                   coreVars>>

ActivateBurst(id) ==
    /\ activate_burst_mode(id)
    /\ op' = [name |-> "activate_burst_mode", id |-> id]
    /\ UNCHANGED <<sheetVars, now, slotVars, ttlVars, capture_ttl, histVars, apiVars,
                   coreVars>>

CheckBurst ==
    /\ check_burst_mode
    /\ op' = [name |-> "check_burst_mode",
              off |-> burst_mode_active /\ ~burst_mode_active']
    /\ UNCHANGED <<sheetVars, now, slotVars, ttlVars, capture_ttl, histVars, apiVars,
                   coreVars>>

\* the TTL sequence test: adjust_ttl fed a sequence of change counts from a
\* fresh manager, the TTL after each call recorded
FeedTtl(n) ==
    /\ Len(fed) < MaxFeed
    /\ adjust_ttl(n)
    /\ fed' = Append(fed, n)
    /\ ttl_trace' = Append(ttl_trace, cache_ttl')
    /\ op' = [name |-> "adjust_ttl", n |-> n, old_ttl |-> cache_ttl]
    /\ UNCHANGED <<sheetVars, now, slotVars, burstVars, capture_ttl, apiVars, coreVars>>

(***************************************************************************)
(* OptimizedAPIManager.  A call runs without interruption up to the next   *)
(* request it awaits: "csrf" is the GET of senderPage in flight, "post"    *)
(* the POST of updateSenderPage, "add_csrf" and "add_post" the same for    *)
(* add_sender, "done" a call that has returned.  Two fields record the     *)
(* order of the requests in flight: older, the tasks whose POST was sent   *)
(* before this one and is not answered yet, and superseded, whether a POST *)
(* sent after this one has had its data stored already.                    *)
(***************************************************************************)
Idle == [pc |-> "idle", depth |-> 0, ret |-> <<>>, how |-> "none",
         older |-> {}, superseded |-> FALSE]

\* the tasks whose updateSenderPage request is awaiting its answer
InFlight(p) == {q \in Procs \ {p} : fx[q].pc = "post"}

\* the request of p has been answered: it is in flight no more
Answered(f, p) ==
    [q \in Procs |->
        IF q = p THEN [f[p] EXCEPT !.older = {}, !.superseded = FALSE]
        ELSE [f[q] EXCEPT !.older = @ \ {p}]]

\* the data of p's request has been stored while requests sent before it
\* are still in flight
Overtake(f, p) ==
    [q \in Procs |->
        IF q \in f[p].older THEN [f[q] EXCEPT !.superseded = TRUE]
        ELSE f[q]]

ApiInit ==
    /\ csrf_token = None
    /\ csrf_expires_at = NoTime
    /\ fx = [p \in Procs |-> Idle]

\* smart_cache.get_cache() or []
CacheOrEmpty(c) == IF Truthy(c) THEN c[1] ELSE <<>>

\* get_csrf_token answers from the cached token, without a request
CsrfCached(force_refresh) ==
    /\ ~force_refresh
    /\ csrf_token # None
    /\ csrf_expires_at # NoTime
    /\ now < csrf_expires_at

\* what the updateSenderPage request can answer: 200 with "data", 200
\* without it, 403/419, another status, an exception
PostResults(responses) ==
    [kind : {"data"}, rows : responses]
        \cup [kind : {"no_data", "expired", "status", "exception"},
              rows : {<<>>}]

\* the responses the direct callers are given
ApiResponses ==
    { <<>>,
      << <<"A", "img">>, Row("A", "e1", "LOGGING") >>,
      << Row("A", "e1", "AVAILABLE") >> }

\* what the addAccount request can answer
AddResults == {"success", "exists", "error", "expired", "status", "exception"}

\* fetch_all_accounts_batch up to its first awaited request
FetchStart(p, force_refresh, depth) ==
    IF ~force_refresh /\ is_cache_valid /\ Truthy(cache)
    THEN fx' = [fx EXCEPT ![p] = [Idle EXCEPT !.pc = "done",
                                              !.depth = depth,
                                              !.ret = cache[1],
                                              !.how = "cached"]]
    ELSE IF CsrfCached(FALSE)
    THEN fx' = [fx EXCEPT ![p] = [Idle EXCEPT !.pc = "post",
                                              !.depth = depth,
                                              !.older = InFlight(p)]]
    ELSE fx' = [fx EXCEPT ![p] = [Idle EXCEPT !.pc = "csrf",
                                              !.depth = depth]]

FetchCall(p, force_refresh) ==
    /\ fx[p].pc = "idle"
    /\ FetchStart(p, force_refresh, 0)
    /\ op' = [name |-> "fetch_all_accounts_batch", p |-> p,
              force_refresh |-> force_refresh]
    /\ UNCHANGED <<sheetVars, now, cacheVars, capture_ttl, histVars, csrf_token,
                   csrf_expires_at, coreVars>>

\* the senderPage request of get_csrf_token answers
CsrfResponse(p, ok) ==
    /\ ~Running
    /\ fx[p].pc = "csrf"
    /\ IF ok
       THEN /\ csrf_token' = Some("tok")
            /\ csrf_expires_at' = now + CSRF_TOKEN_TTL
            /\ fx' = [fx EXCEPT ![p].pc = "post",
                                ![p].older = InFlight(p)]
            /\ UNCHANGED <<slotVars, capture_ttl>>
       ELSE /\ update_cache(<<>>, FALSE)
            /\ CaptureTtl(FALSE)
            /\ fx' = [fx EXCEPT ![p].pc = "done",
                                ![p].ret = CacheOrEmpty(cache'),
                                ![p].how = "no_csrf"]
            /\ UNCHANGED <<csrf_token, csrf_expires_at>>
    /\ op' = [name |-> "get_csrf_token", p |-> p]
    /\ UNCHANGED <<sheetVars, now, ttlVars, burstVars, histVars, coreVars>>

\* fetch_all_accounts_batch from the answer of its request to its return
\* or, on 403/419, to the request awaited by the recursive call
fetch_response(p, r) ==
    CASE r.kind = "data" ->
            /\ update_cache(ParseRows(r.rows), TRUE)
            /\ CaptureTtl(TRUE)
            /\ fx' = Answered(Overtake([fx EXCEPT
                                            ![p].pc = "done",
                                            ![p].ret = ParseRows(r.rows),
                                            ![p].how = "ok"], p), p)
            /\ UNCHANGED csrf_token
      [] r.kind = "expired" ->
            /\ fx[p].depth < MaxRetryDepth
            /\ csrf_token' = None
            /\ fx' = Answered([fx EXCEPT ![p].pc = "csrf",
                                         ![p].depth = @ + 1], p)
            /\ UNCHANGED <<slotVars, capture_ttl>>
      [] r.kind = "exception" ->
            /\ update_cache(<<>>, FALSE)
            /\ CaptureTtl(FALSE)
            /\ fx' = Answered([fx EXCEPT
                                   ![p].pc = "done",
                                   ![p].ret = CacheOrEmpty(cache'),
                                   ![p].how = r.kind], p)
            /\ UNCHANGED csrf_token
      [] OTHER ->
            /\ fx' = Answered([fx EXCEPT
                                   ![p].pc = "done",
                                   ![p].ret = CacheOrEmpty(cache),
                                   ![p].how = r.kind], p)
            /\ UNCHANGED <<slotVars, capture_ttl, csrf_token>>

PostResponse(p, r) ==
    /\ ~Running
    /\ fx[p].pc = "post"
    /\ fetch_response(p, r)
    /\ op' = [name |-> "updateSenderPage", p |-> p]
    /\ UNCHANGED <<sheetVars, now, ttlVars, burstVars, histVars, csrf_expires_at,
                   coreVars>>

\* the caller takes the value returned
FetchReturn(p) ==
    /\ fx[p].pc = "done"
    /\ fx' = [fx EXCEPT ![p] = Idle]
    /\ op' = [name |-> "return", p |-> p]
    /\ UNCHANGED <<sheetVars, now, cacheVars, capture_ttl, histVars, csrf_token,
                   csrf_expires_at, coreVars>>

\* add_sender up to its first awaited request
AddSenderCall(p) ==
    /\ fx[p].pc = "idle"
    /\ fx' = [fx EXCEPT ![p].pc =
                 IF CsrfCached(FALSE) THEN "add_post" ELSE "add_csrf"]
    /\ op' = [name |-> "add_sender", p |-> p]
    /\ UNCHANGED <<sheetVars, now, cacheVars, capture_ttl, histVars, csrf_token,
                   csrf_expires_at, coreVars>>

AddCsrfResponse(p, ok) ==
    /\ fx[p].pc = "add_csrf"
    /\ IF ok
       THEN /\ csrf_token' = Some("tok")
            /\ csrf_expires_at' = now + CSRF_TOKEN_TTL
            /\ fx' = [fx EXCEPT ![p].pc = "add_post"]
       ELSE /\ fx' = [fx EXCEPT ![p] = Idle]
            /\ UNCHANGED <<csrf_token, csrf_expires_at>>
    /\ op' = [name |-> "get_csrf_token", p |-> p]
    /\ UNCHANGED <<sheetVars, now, cacheVars, capture_ttl, histVars, coreVars>>

AddPostResponse_KeepTimestamp(p, r) ==
    /\ fx[p].pc = "add_post"
    /\ fx' = [fx EXCEPT ![p] = Idle]
    /\ IF r = "success"
       THEN /\ cache' = None
            /\ UNCHANGED cache_timestamp
       ELSE UNCHANGED <<cache, cache_timestamp>>
    /\ csrf_token' = IF r = "expired" THEN None ELSE csrf_token
    /\ op' = [name |-> "addAccount", p |-> p, result |-> r]
    /\ UNCHANGED <<sheetVars, now, last_successful_cache, last_successful_timestamp,
                   ttlVars, burstVars, capture_ttl, histVars,
                   csrf_expires_at, coreVars>>

\* add_sender from the answer of addAccount to its return
AddPostResponse(p, r) ==
    /\ fx[p].pc = "add_post"
    /\ fx' = [fx EXCEPT ![p] = Idle]
    /\ IF r = "success"
       THEN /\ cache' = None
            /\ cache_timestamp' = NoTime
       ELSE UNCHANGED <<cache, cache_timestamp>>
    /\ csrf_token' = IF r = "expired" THEN None ELSE csrf_token
    /\ op' = [name |-> "addAccount", p |-> p, result |-> r]
    /\ UNCHANGED <<sheetVars, now, last_successful_cache, last_successful_timestamp,
                   ttlVars, burstVars, capture_ttl, histVars,
                   csrf_expires_at, coreVars>>

(***************************************************************************)
(* core.py: the monitored accounts file and wait_for_status_change.        *)
(* config.py is not among the sources: FINAL_STATUSES and                  *)
(* TRANSITIONAL_STATUSES are the statuses the code and the spec name.      *)
(* Intervals are in tenths of a second.                                    *)
(***************************************************************************)
FINAL_STATUSES ==
    {"AVAILABLE", "ACTIVE", "LOGGED", "LOGGED IN", "WRONG DETAILS",
     "BACKUP CODE WRONG"}
TRANSITIONAL_STATUSES == {"LOGGING"}
BURST_MODE_INTERVAL == 25

\* range(1, 15) of the discovery loop
DISCOVERY_RANGE_STOP == 15
max_attempts == 40

\* the statuses after which the account is added to the monitoring
Actionable == {"AVAILABLE", "ACTIVE", "LOGGED", "LOGGED IN"}

\* account_id = None, and an idAccount of ""
NoId == ""
\* last_status = None
NoStatus == "<None>"
\* the arguments of the one call of wait_for_status_change
EMAIL == "e1"
CHAT_ID == 1

\* str.lower() and str.upper() on the strings of the model
Lower(str) == IF str = "E1" THEN "e1" ELSE str
Upper(str) == IF str = "available" THEN "AVAILABLE" ELSE str

MinOf(S) == CHOOSE i \in S : \A j \in S : i <= j

get_account_by_id(c, account_id) ==
    IF ~Truthy(c) THEN None
    ELSE LET hits == {i \in 1..Len(c[1]) : c[1][i].idAccount = account_id}
         IN  IF hits = {} THEN None ELSE Some(c[1][MinOf(hits)])

get_account_by_email(c, email) ==
    IF ~Truthy(c) THEN None
    ELSE LET hits == {i \in 1..Len(c[1]) :
                         Lower(c[1][i].Sender) = Lower(email)}
         IN  IF hits = {} THEN None ELSE Some(c[1][MinOf(hits)])

\* the key f"{account_id}_{email}"
Key(account_id, email) == <<account_id, email>>

\* load_monitored_accounts: the entries of the file in their order, or {}
\* when the file cannot be read (the exception is swallowed)
load_monitored_accounts == IF disk.r THEN monitored ELSE <<>>

\* save_monitored_accounts: the file is replaced, unless writing fails (the
\* exception is logged)
save_monitored_accounts(accounts) ==
    monitored' = IF disk.w THEN accounts ELSE monitored

\* accounts[key] = entry: an existing key keeps its place, a new one is
\* put last
SetEntry(accounts, entry) ==
    IF \E i \in 1..Len(accounts) : accounts[i].key = entry.key
    THEN [i \in 1..Len(accounts) |->
             IF accounts[i].key = entry.key THEN entry ELSE accounts[i]]
    ELSE Append(accounts, entry)

add_monitored_account(email, account_id, status, chat_id) ==
    save_monitored_accounts(
        SetEntry(load_monitored_accounts,
                 [key |-> Key(account_id, email), email |-> email,
                  account_id |-> account_id, last_known_status |-> status,
                  chat_id |-> chat_id, added_at |-> now, last_check |-> now]))

TrkIdle ==
    [pc |-> "idle", initial_attempt |-> 0, attempt |-> 0,
     account_id |-> NoId, account_info |-> None, status |-> NoStatus,
     last_status |-> NoStatus, status_changes |-> <<>>, interval |-> 0,
     elapsed_added |-> 0,
     email_lookups |-> 0, id_lookups |-> 0,
     ret |-> [ok |-> FALSE, info |-> None]]

\* continuous_monitor before its first cycle
MonIdle ==
    [pc |-> "load", accounts |-> <<>>, batch |-> <<>>, i |-> 0,
     changes_detected |-> 0, notes |-> <<>>, ttl_calls |-> 0,
     band |-> "none", raised |-> {}]

CoreInit ==
    /\ trk = TrkIdle
    /\ monitored = <<>>
    /\ disk = [r |-> TRUE, w |-> TRUE]
    /\ mon = MonIdle

\* wait_for_status_change is called and awaits its first sleep
TrkCall ==
    /\ ~Running
    /\ trk.pc = "idle"
    /\ trk' = [trk EXCEPT !.pc = "start"]
    /\ op' = [name |-> "wait_for_status_change"]
    /\ UNCHANGED <<sheetVars, now, cacheVars, capture_ttl, histVars, apiVars, monitored,
                   monVars>>

TrkStart ==
    /\ ~Running
    /\ trk.pc = "start"
    /\ trk' = [trk EXCEPT !.pc = "disc", !.initial_attempt = 1]
    /\ op' = [name |-> "sleep"]
    /\ UNCHANGED <<sheetVars, now, cacheVars, capture_ttl, histVars, apiVars, monitored,
                   monVars>>

discovered_NoActivate(t, info) ==
    IF info # None /\ info[1].idAccount # NoId
    THEN /\ trk' = [t EXCEPT !.account_info = info,
                             !.account_id = info[1].idAccount,
                             !.pc = "track", !.attempt = 1,
                             !.initial_attempt = 0, !.email_lookups = 0]
         /\ UNCHANGED burstVars
    ELSE /\ trk' = [t EXCEPT !.account_info = info, !.pc = "disc_report"]
         /\ UNCHANGED burstVars

\* the discovery loop from the answer of search_sender_by_email to the
\* break or to the awaited edit_text
discovered(t, info) ==
    IF info # None /\ info[1].idAccount # NoId
    THEN /\ trk' = [t EXCEPT !.account_info = info,
                             !.account_id = info[1].idAccount,
                             !.pc = "track", !.attempt = 1,
                             !.initial_attempt = 0, !.email_lookups = 0]
         /\ activate_burst_mode(info[1].idAccount)
    ELSE /\ trk' = [t EXCEPT !.account_info = info, !.pc = "disc_report"]
         /\ UNCHANGED burstVars

\* search_sender_by_email: answered from a valid cache, or a fetch first
TrkDiscLookup ==
    /\ trk.pc = "disc"
    /\ IF is_cache_valid
       THEN /\ discovered([trk EXCEPT !.email_lookups = @ + 1],
                          get_account_by_email(cache, EMAIL))
            /\ UNCHANGED fx
       ELSE /\ FetchStart("trk", FALSE, 0)
            /\ trk' = [trk EXCEPT !.pc = "disc_fetch",
                                  !.email_lookups = @ + 1]
            /\ UNCHANGED burstVars
    /\ op' = [name |-> "search_sender_by_email", email |-> EMAIL]
    /\ UNCHANGED <<sheetVars, now, slotVars, ttlVars, capture_ttl, histVars,
                   csrf_token, csrf_expires_at, monitored,
                   monVars>>

TrkDiscFetched ==
    /\ trk.pc = "disc_fetch"
    /\ fx["trk"].pc = "done"
    /\ fx' = [fx EXCEPT !["trk"] = Idle]
    /\ discovered(trk, get_account_by_email(cache, EMAIL))
    /\ op' = [name |-> "get_account_by_email", email |-> EMAIL]
    /\ UNCHANGED <<sheetVars, now, slotVars, ttlVars, capture_ttl, histVars,
                   csrf_token, csrf_expires_at, monitored,
                   monVars>>

\* message_obj.edit_text of the discovery loop returns or raises; raised
\* there, the exception leaves wait_for_status_change
TrkDiscReport(ok) ==
    /\ ~Running
    /\ trk.pc = "disc_report"
    /\ trk' = IF ok
              THEN [trk EXCEPT !.pc = "disc_sleep", !.elapsed_added = 30]
              ELSE [trk EXCEPT !.pc = "raised"]
    /\ op' = [name |-> "edit_text", ok |-> ok]
    /\ UNCHANGED <<sheetVars, now, cacheVars, capture_ttl, histVars, apiVars, monitored,
                   monVars>>

\* the sleep of the discovery loop ends: the next lookup, or the loop ends
TrkDiscWake ==
    /\ ~Running
    /\ trk.pc = "disc_sleep"
    /\ trk' = IF trk.initial_attempt + 1 < DISCOVERY_RANGE_STOP
              THEN [trk EXCEPT !.pc = "disc", !.initial_attempt = @ + 1,
                               !.elapsed_added = 0]
              ELSE [trk EXCEPT !.pc = "done", !.elapsed_added = 0,
                               !.ret = [ok |-> FALSE, info |-> None]]
    /\ op' = [name |-> "sleep"]
    /\ UNCHANGED <<sheetVars, now, cacheVars, capture_ttl, histVars, apiVars, monitored,
                   monVars>>

\* a tracking attempt begins
TrkCheckBurst ==
    /\ trk.pc = "track"
    /\ check_burst_mode
    /\ trk' = [trk EXCEPT !.pc = "track_search"]
    /\ op' = [name |-> "check_burst_mode",
              off |-> burst_mode_active /\ ~burst_mode_active']
    /\ UNCHANGED <<sheetVars, now, slotVars, ttlVars, capture_ttl, histVars, apiVars,
                   monitored, monVars>>

observed_NoRecordForgets(t, info) ==
    IF info = None
    THEN trk' = [t EXCEPT !.account_info = None, !.pc = "track_sleep",
                          !.interval = 20, !.elapsed_added = 0,
                          !.last_status = NoStatus]
    ELSE LET status == Upper(info[1].Status)
         IN  /\ status # t.last_status =>
                    Len(t.status_changes) < MaxStatusChanges
             /\ trk' = [t EXCEPT !.account_info = info,
                                 !.status = status,
                                 !.status_changes =
                                     IF status # t.last_status
                                     THEN Append(@, status) ELSE @,
                                 !.last_status = status,
                                 !.pc = "track_report"]

observed_AlwaysAppend(t, info) ==
    IF info = None
    THEN trk' = [t EXCEPT !.account_info = None, !.pc = "track_sleep",
                          !.interval = 20, !.elapsed_added = 0]
    ELSE LET status == Upper(info[1].Status)
         IN  /\ Len(t.status_changes) < MaxStatusChanges
             /\ trk' = [t EXCEPT !.account_info = info,
                                 !.status = status,
                                 !.status_changes = Append(@, status),
                                 !.last_status = status,
                                 !.pc = "track_report"]

\* a tracking attempt from the answer of search_sender_by_id to the awaited
\* sleep (no record) or the awaited edit_text
observed(t, info) ==
    IF info = None
    THEN trk' = [t EXCEPT !.account_info = None, !.pc = "track_sleep",
                          !.interval = 20, !.elapsed_added = 0]
    ELSE LET status == Upper(info[1].Status)
         IN  /\ status # t.last_status =>
                    Len(t.status_changes) < MaxStatusChanges
             /\ trk' = [t EXCEPT !.account_info = info,
                                 !.status = status,
                                 !.status_changes =
                                     IF status # t.last_status
                                     THEN Append(@, status) ELSE @,
                                 !.last_status = status,
                                 !.pc = "track_report"]

TrkSearchById ==
    /\ trk.pc = "track_search"
    /\ IF is_cache_valid
       THEN /\ observed([trk EXCEPT !.id_lookups = @ + 1],
                        get_account_by_id(cache, trk.account_id))
            /\ UNCHANGED fx
       ELSE /\ FetchStart("trk", FALSE, 0)
            /\ trk' = [trk EXCEPT !.pc = "track_fetch",
                                  !.id_lookups = @ + 1]
    /\ op' = [name |-> "search_sender_by_id", id |-> trk.account_id]
    /\ UNCHANGED <<sheetVars, now, cacheVars, capture_ttl, histVars, csrf_token,
                   csrf_expires_at, monitored,
                   monVars>>

TrkTrackFetched ==
    /\ trk.pc = "track_fetch"
    /\ fx["trk"].pc = "done"
    /\ fx' = [fx EXCEPT !["trk"] = Idle]
    /\ observed(trk, get_account_by_id(cache, trk.account_id))
    /\ op' = [name |-> "get_account_by_id", id |-> trk.account_id]
    /\ UNCHANGED <<sheetVars, now, cacheVars, capture_ttl, histVars, csrf_token,
                   csrf_expires_at, monitored,
                   monVars>>

\* the early end of the burst session (core.py 370-371, 393-395)
EndBurst(account_id) ==
    /\ burst_mode_active' = FALSE
    /\ burst_targets' = burst_targets \ {account_id}
    /\ UNCHANGED burst_mode_started

\* the sleep after a non-final attempt (core.py 376-379), in tenths of a
\* second
sleep_interval(status) ==
    IF burst_mode_active THEN BURST_MODE_INTERVAL
    ELSE IF status \in TRANSITIONAL_STATUSES THEN 40 ELSE 50

\* message_obj.edit_text of a tracking attempt returns or raises, then the
\* attempt up to its return or its awaited sleep
TrkTrackReport(ok) ==
    /\ ~Running
    /\ trk.pc = "track_report"
    /\ IF ~ok
       THEN /\ trk' = [trk EXCEPT !.pc = "track_sleep", !.interval = 20,
                                  !.elapsed_added = 20]
            /\ UNCHANGED <<burstVars, monitored>>
       ELSE IF trk.status \in FINAL_STATUSES
       THEN /\ IF trk.status \in Actionable
               THEN add_monitored_account(EMAIL, trk.account_id, trk.status,
                                          CHAT_ID)
               ELSE UNCHANGED monitored
            /\ EndBurst(trk.account_id)
            /\ trk' = [trk EXCEPT !.pc = "done",
                          !.ret = [ok |-> TRUE, info |-> trk.account_info]]
       ELSE /\ trk' = [trk EXCEPT !.pc = "track_sleep",
                          !.interval = sleep_interval(trk.status),
                          !.elapsed_added = sleep_interval(trk.status)]
            /\ UNCHANGED <<burstVars, monitored>>
    /\ op' = [name |-> "edit_text", ok |-> ok]
    /\ UNCHANGED <<sheetVars, now, slotVars, ttlVars, capture_ttl, histVars, apiVars,
                   monVars>>

TrkTrackWake_SameAttempt ==
    /\ ~Running
    /\ trk.pc = "track_sleep"
    /\ IF trk.attempt < max_attempts
       THEN /\ trk' = [trk EXCEPT !.pc = "track",
                                  !.interval = 0, !.elapsed_added = 0]
            /\ UNCHANGED <<burstVars, monitored>>
       ELSE /\ EndBurst(trk.account_id)
            /\ IF trk.account_info # None
               THEN LET status == Upper(trk.account_info[1].Status)
                    IN  /\ IF status \in Actionable
                           THEN add_monitored_account(EMAIL, trk.account_id,
                                                      status, CHAT_ID)
                           ELSE UNCHANGED monitored
                        /\ trk' = [trk EXCEPT !.pc = "done",
                                      !.status = status,
                                      !.ret = [ok |-> TRUE,
                                               info |-> trk.account_info]]
               ELSE /\ trk' = [trk EXCEPT !.pc = "done",
                                  !.ret = [ok |-> FALSE, info |-> None]]
                    /\ UNCHANGED monitored
    /\ op' = [name |-> "sleep"]
    /\ UNCHANGED <<sheetVars, now, slotVars, ttlVars, capture_ttl, histVars, apiVars,
                   monVars>>

\* the sleep of a tracking attempt ends: the next attempt, or the attempts
\* are used up (core.py 389-403)
TrkTrackWake ==
    /\ ~Running
    /\ trk.pc = "track_sleep"
    /\ IF trk.attempt < max_attempts
       THEN /\ trk' = [trk EXCEPT !.pc = "track", !.attempt = @ + 1,
                                  !.interval = 0, !.elapsed_added = 0]
            /\ UNCHANGED <<burstVars, monitored>>
       ELSE /\ EndBurst(trk.account_id)
            /\ IF trk.account_info # None
               THEN LET status == Upper(trk.account_info[1].Status)
                    IN  /\ IF status \in Actionable
                           THEN add_monitored_account(EMAIL, trk.account_id,
                                                      status, CHAT_ID)
                           ELSE UNCHANGED monitored
                        /\ trk' = [trk EXCEPT !.pc = "done",
                                      !.status = status,
                                      !.ret = [ok |-> TRUE,
                                               info |-> trk.account_info]]
               ELSE /\ trk' = [trk EXCEPT !.pc = "done",
                                  !.ret = [ok |-> FALSE, info |-> None]]
                    /\ UNCHANGED monitored
    /\ op' = [name |-> "sleep"]
    /\ UNCHANGED <<sheetVars, now, slotVars, ttlVars, capture_ttl, histVars, apiVars,
                   monVars>>

(***************************************************************************)
(* core.py: continuous_monitor.  A cycle runs without interruption from    *)
(* one await to the next: the fetch ("fetch"), a notification ("notify"),  *)
(* the sleep at its end ("sleep").                                         *)
(***************************************************************************)
\* an entry without the "chat_id" key
NoChat == 0

MaxOf(S) == CHOOSE i \in S : \A j \in S : i >= j

\* update_monitored_account_status: the first entry with that account_id
update_monitored_account_status(account_id, new_status) ==
    LET accounts == load_monitored_accounts
        hits == {i \in 1..Len(accounts) :
                    accounts[i].account_id = account_id}
    IN  IF hits = {}
        THEN UNCHANGED monitored
        ELSE save_monitored_accounts(
                 [accounts EXCEPT
                     ![MinOf(hits)].last_known_status = new_status,
                     ![MinOf(hits)].last_check = now])

\* accounts_by_id.get(account_id): records without an id are left out, and
\* of two records with one id the later one stays
ById(batch, account_id) ==
    LET hits == {i \in 1..Len(batch) :
                    /\ batch[i].idAccount # NoId
                    /\ batch[i].idAccount = account_id}
    IN  IF hits = {} THEN None ELSE Some(batch[MaxOf(hits)])

\* the sleep chosen at the end of a cycle, from the entries as loaded at its
\* start; an entry without "last_known_status" raises there and the cycle
\* ends in the handler's sleep(30)
Band(accounts) ==
    LET statuses == {accounts[i].last_known_status : i \in 1..Len(accounts)}
    IN  IF NoStatus \in statuses THEN "backoff"
        ELSE IF "LOGGING" \in statuses THEN "short"
        ELSE IF "AVAILABLE" \in statuses \/ "ACTIVE" \in statuses
             THEN "medium"
        ELSE "long"

\* the loop over the entries begins
BeginScan(accounts, all_accounts) ==
    [MonIdle EXCEPT !.pc = "scan", !.accounts = accounts,
                    !.batch = all_accounts, !.i = 1]

\* a cycle begins: the entries are loaded and the batch is asked for
MonCycle ==
    /\ ~Running
    /\ mon.pc = "load"
    /\ LET accounts == load_monitored_accounts
       IN  IF accounts = <<>>
           THEN /\ mon' = [MonIdle EXCEPT !.pc = "sleep", !.band = "idle"]
                /\ UNCHANGED fx
           ELSE IF is_cache_valid /\ Truthy(cache)
           THEN /\ mon' = BeginScan(accounts, cache[1])
                /\ UNCHANGED fx
           ELSE /\ FetchStart("mon", FALSE, 0)
                /\ mon' = [MonIdle EXCEPT !.pc = "fetch",
                                          !.accounts = accounts]
    /\ op' = [name |-> "continuous_monitor"]
    /\ UNCHANGED <<sheetVars, now, cacheVars, capture_ttl, histVars, csrf_token,
                   csrf_expires_at, trk, monitored, disk>>

MonFetched ==
    /\ mon.pc = "fetch"
    /\ fx["mon"].pc = "done"
    /\ fx' = [fx EXCEPT !["mon"] = Idle]
    /\ mon' = BeginScan(mon.accounts, fx["mon"].ret)
    /\ op' = [name |-> "return", p |-> "mon"]
    /\ UNCHANGED <<sheetVars, now, cacheVars, capture_ttl, histVars, csrf_token,
                   csrf_expires_at, trk, monitored, disk>>

except_entry_Abort(m, k) ==
    [m EXCEPT !.raised = @ \cup {k}, !.i = Len(m.accounts) + 1,
              !.pc = "sleep", !.band = "backoff"]

\* the handler of an exception raised while an entry is processed: the
\* loop goes on with the next entry
except_entry(m, k) ==
    [m EXCEPT !.raised = @ \cup {k}, !.i = k + 1]

\* one entry of the loop, up to the next entry or to the awaited
\* notification
MonEntry ==
    /\ mon.pc = "scan"
    /\ mon.i <= Len(mon.accounts)
    /\ LET data == mon.accounts[mon.i]
           account_info == ById(mon.batch, data.account_id)
           next == [mon EXCEPT !.i = @ + 1]
       IN  IF data.account_id = NoId \/ account_info = None
           THEN /\ mon' = next
                /\ op' = [name |-> "skip", key |-> data.key]
                /\ UNCHANGED monitored
           ELSE IF data.last_known_status = NoStatus
           THEN /\ mon' = except_entry(mon, mon.i)
                /\ op' = [name |-> "error", key |-> data.key]
                /\ UNCHANGED monitored
           ELSE LET current_status == Upper(account_info[1].Status)
                    last_status == Upper(data.last_known_status)
                IN  IF current_status # last_status
                    THEN /\ update_monitored_account_status(
                                data.account_id, current_status)
                         /\ IF data.chat_id = NoChat
                            THEN /\ mon' = except_entry(
                                              [mon EXCEPT
                                                !.changes_detected = @ + 1],
                                              mon.i)
                                 /\ op' = [name |-> "error",
                                           key |-> data.key]
                            ELSE /\ mon' = [mon EXCEPT
                                              !.changes_detected = @ + 1,
                                              !.pc = "notify",
                                              !.notes = Append(@,
                                                  [key |-> data.key,
                                                   old |-> last_status,
                                                   new |-> current_status])]
                                 /\ op' = [name |-> "send_status_notification",
                                           key |-> data.key,
                                           old |-> last_status,
                                           new |-> current_status]
                    ELSE /\ update_monitored_account_status(
                                data.account_id, current_status)
                         /\ mon' = next
                         /\ op' = [name |-> "match", key |-> data.key]
    /\ UNCHANGED <<sheetVars, now, cacheVars, capture_ttl, histVars, apiVars, trk, disk>>

\* send_status_notification returns: the message was sent, or its exception
\* was logged
MonNotified(ok) ==
    /\ ~Running
    /\ mon.pc = "notify"
    /\ mon' = [mon EXCEPT !.pc = "scan", !.i = @ + 1]
    /\ op' = [name |-> "send_message", ok |-> ok]
    /\ UNCHANGED <<sheetVars, now, cacheVars, capture_ttl, histVars, apiVars, trk,
                   monitored, disk>>

MonFinish_ZeroChanges ==
    /\ mon.pc = "scan"
    /\ mon.i > Len(mon.accounts)
    /\ consecutive_quiet_cycles < MaxQuiet
    /\ adjust_ttl(0)
    /\ mon' = [mon EXCEPT !.pc = "sleep", !.ttl_calls = @ + 1,
                          !.band = Band(mon.accounts)]
    /\ op' = [name |-> "adjust_ttl", n |-> 0, old_ttl |-> cache_ttl]
    /\ UNCHANGED <<sheetVars, now, slotVars, burstVars, capture_ttl, histVars, apiVars,
                   trk, monitored, disk>>

\* the end of a cycle: adjust_ttl, the choice of the sleep
MonFinish ==
    /\ mon.pc = "scan"
    /\ mon.i > Len(mon.accounts)
    /\ mon.changes_detected < 2 => consecutive_quiet_cycles < MaxQuiet
    /\ adjust_ttl(mon.changes_detected)
    /\ mon' = [mon EXCEPT !.pc = "sleep", !.ttl_calls = @ + 1,
                          !.band = Band(mon.accounts)]
    /\ op' = [name |-> "adjust_ttl", n |-> mon.changes_detected,
              old_ttl |-> cache_ttl]
    /\ UNCHANGED <<sheetVars, now, slotVars, burstVars, capture_ttl, histVars, apiVars,
                   trk, monitored, disk>>

MonWake_StopOnBackoff ==
    /\ ~Running
    /\ mon.pc = "sleep"
    /\ mon.band # "backoff"
    /\ mon' = MonIdle
    /\ op' = [name |-> "sleep", band |-> mon.band]
    /\ UNCHANGED <<sheetVars, now, cacheVars, capture_ttl, histVars, apiVars, trk,
                   monitored, disk>>

\* the sleep of a cycle ends (the idle sleep, the sleep chosen at the end
\* of the cycle, or the sleep of the exception handler): the loop goes on
MonWake ==
    /\ ~Running
    /\ mon.pc = "sleep"
    /\ mon' = MonIdle
    /\ op' = [name |-> "sleep", band |-> mon.band]
    /\ UNCHANGED <<sheetVars, now, cacheVars, capture_ttl, histVars, apiVars, trk,
                   monitored, disk>>

\* the accounts of the monitored file: ids "1", "2", ... and their senders
Id(i) == ToString(i)
Email(account_id) == "e" \o account_id

Entry(account_id, status, chat_id) ==
    [key |-> Key(account_id, Email(account_id)),
     email |-> Email(account_id), account_id |-> account_id,
     last_known_status |-> status, chat_id |-> chat_id,
     added_at |-> 0, last_check |-> 0]

\* a file of n entries written by add_monitored_account
File(n) == [i \in 1..n |-> Entry(Id(i), "AVAILABLE", CHAT_ID)]

\* the files continuous_monitor can find when it starts: none, a file of
\* two entries, and files whose first entry lacks a key
StartFiles ==
    { <<>>,
      File(2),
      << Entry("1", "AVAILABLE", NoChat), Entry("2", "AVAILABLE", CHAT_ID) >>,
      << Entry("1", NoStatus, CHAT_ID), Entry("2", "LOGGING", CHAT_ID) >> }

\* a batch in which the first k accounts are ACTIVE and the others available
Batch(k) ==
    [i \in 1..ScanEntries |->
        Row(Id(i), Email(Id(i)), IF i <= k THEN "ACTIVE" ELSE "available")]

\* the responses the monitor's fetches are given
MonResponses ==
    { <<>>,
      << Row("2", "e2", "LOGGING") >>,
      << Row("1", "e1", "available"), Row("2", "e2", "AVAILABLE") >>,
      << Row("1", "e1", "ACTIVE"), Row("2", "e2", "LOGGING") >> }

\* the responses given to the scan of the large file
ScanResponses ==
    {Batch(k) : k \in 0..ScanEntries} \cup { << Row("2", "e2", "LOGGING") >> }

MonResults ==
    {r \in PostResults(MonResponses) :
        r.kind \in {"data", "status", "exception"}}

\* a tracking task registers an account (core.py 367, 400)
Register(account_id, status) ==
    /\ ~Running
    /\ add_monitored_account(Email(account_id), account_id, status, CHAT_ID)
    /\ op' = [name |-> "add_monitored_account", id |-> account_id]
    /\ UNCHANGED <<sheetVars, now, cacheVars, capture_ttl, histVars, apiVars, trk, disk,
                   mon>>

\* reading or writing the file starts or stops failing
DiskFault(r, w) ==
    /\ ~Running
    /\ disk # [r |-> r, w |-> w]
    /\ disk' = [r |-> r, w |-> w]
    /\ op' = [name |-> "disk"]
    /\ UNCHANGED <<sheetVars, now, cacheVars, capture_ttl, histVars, apiVars, trk,
                   monitored, mon>>

(***************************************************************************)
(* sheets/worker.py: pending_worker and retry_worker.  A cycle has no      *)
(* await between reading a queue and writing it back.  queue_manager.py is *)
(* not among the sources: its functions are taken by their names and by    *)
(* the comments of the workers.                                            *)
(***************************************************************************)
\* queue_config.get("max_retries", 50)
max_retries == 50

SheetEmails == {"e1", "e2"}

SheetInit ==
    /\ pending = <<>>
    /\ retry = <<>>
    /\ failed = <<>>

\* the items of a queue whose e-mail is not in emails
clear_batch(queue, emails) ==
    LET Kept(item) == item.email \notin emails
    IN  SelectSeq(queue, Kept)

\* the e-mails of a batch
EmailsOf(batch) == {batch[i].email : i \in 1..Len(batch)}

\* core.py's add_to_pending_queue
AddToPending(email) ==
    /\ Len(pending) + Len(retry) + Len(failed) < MaxQueued
    /\ pending' = Append(pending, [email |-> email, attempts |-> 0])
    /\ op' = [name |-> "add_to_pending_queue", email |-> email]
    /\ UNCHANGED <<retry, failed, now, cacheVars, capture_ttl, histVars,
                   apiVars, coreVars>>

\* a cycle of pending_worker on a batch that is not empty
PendingCycle(success) ==
    /\ pending # <<>>
    /\ LET batch == pending
           Retried(item) == item.attempts < max_retries
           Given_up(item) == ~(item.attempts < max_retries)
       IN  /\ IF success
              THEN UNCHANGED <<retry, failed>>
              ELSE /\ retry' = retry \o SelectSeq(batch, Retried)
                   /\ failed' = failed \o SelectSeq(batch, Given_up)
           /\ pending' = clear_batch(pending, EmailsOf(batch))
    /\ op' = [name |-> "pending_worker", success |-> success]
    /\ UNCHANGED <<now, cacheVars, capture_ttl, histVars, apiVars, coreVars>>

\* the batch of a failed retry: every item with one attempt more
Attempted(batch) ==
    [i \in 1..Len(batch) |-> [batch[i] EXCEPT !.attempts = @ + 1]]

retry_failed_KeepAtLimit(batch) ==
    LET Kept(item) == item.attempts <= max_retries
        Given_up(item) == ~(item.attempts <= max_retries)
    IN  /\ retry' = SelectSeq(Attempted(batch), Kept)
        /\ failed' = failed \o SelectSeq(Attempted(batch), Given_up)

\* the else branch of retry_worker: updated_batch is saved as the retry
\* queue, the items at the limit are moved to the failed queue
retry_failed(batch) ==
    LET Kept(item) == item.attempts < max_retries
        Given_up(item) == ~(item.attempts < max_retries)
    IN  /\ retry' = SelectSeq(Attempted(batch), Kept)
        /\ failed' = failed \o SelectSeq(Attempted(batch), Given_up)

\* a cycle of retry_worker on a batch that is not empty
RetryCycle(success) ==
    /\ retry # <<>>
    /\ LET batch == retry
       IN  IF success
           THEN /\ retry' = clear_batch(retry, EmailsOf(batch))
                /\ UNCHANGED failed
           ELSE retry_failed(batch)
    /\ op' = [name |-> "retry_worker", success |-> success,
              batch |-> retry]
    /\ UNCHANGED <<pending, now, cacheVars, capture_ttl, histVars, apiVars,
                   coreVars>>

\* the responses the tracker's fetches are given
TrackResponses ==
    { <<>>,
      << Row("", "e1", "LOGGING") >>,
      << Row("A", "e1", "LOGGING") >>,
      << Row("A", "E1", "CHECKING") >>,
      << Row("A", "e1", "AVAILABLE") >>,
      << Row("B", "e2", "ACTIVE"), Row("A", "e1", "WRONG DETAILS") >> }

Init ==
    /\ now = 0
    /\ CoreInit
    /\ CacheInit
    /\ ApiInit
    /\ capture_ttl = CACHE_TTL_NORMAL
    /\ op = [name |-> "init"]
    /\ fed = <<>>
    /\ ttl_trace = <<>>
    /\ SheetInit

NextTtl == \E n \in 0..MaxChanges : FeedTtl(n)

SpecTtl == Init /\ [][NextTtl]_vars

NextCache ==
    \/ Tick
    \/ \E d \in CacheData, s \in BOOLEAN : UpdateCache(d, s)
    \/ \E n \in 0..MaxChanges : AdjustTtl(n)
    \/ \E id \in AccountIds : ActivateBurst(id)
    \/ CheckBurst

SpecCache == Init /\ [][NextCache]_vars

NextApi ==
    \/ Tick
    \/ \E p \in Callers, force \in BOOLEAN : FetchCall(p, force)
    \/ \E p \in Callers, ok \in BOOLEAN : CsrfResponse(p, ok)
    \/ \E p \in Callers, r \in PostResults(ApiResponses) : PostResponse(p, r)
    \/ \E p \in Callers : FetchReturn(p)
    \/ \E p \in Callers : AddSenderCall(p)
    \/ \E p \in Callers, ok \in BOOLEAN : AddCsrfResponse(p, ok)
    \/ \E p \in Callers, r \in AddResults : AddPostResponse(p, r)

SpecApi == Init /\ [][NextApi]_vars

\* the answers the tracker's fetches are given
TrackResults ==
    {r \in PostResults(TrackResponses) : r.kind \in {"data", "status", "exception"}}

NextTrack ==
    \/ Tick
    \/ TrkCall
    \/ TrkStart
    \/ TrkDiscLookup
    \/ TrkDiscFetched
    \/ \E ok \in BOOLEAN : TrkDiscReport(ok)
    \/ TrkDiscWake
    \/ TrkCheckBurst
    \/ TrkSearchById
    \/ TrkTrackFetched
    \/ \E ok \in BOOLEAN : TrkTrackReport(ok)
    \/ TrkTrackWake
    \/ \E ok \in BOOLEAN : CsrfResponse("trk", ok)
    \/ \E r \in TrackResults : PostResponse("trk", r)

SpecTrack == Init /\ [][NextTrack]_vars

\* the scripted source of the end-to-end tracking scenario: the lookup by
\* sender and the lookups of attempts 1 and 2 find the account LOGGING, the
\* lookup of attempt 3 and every later one find it AVAILABLE
ScriptRows(attempt) ==
    << Row("A", "e1", IF attempt <= 2 THEN "LOGGING" ELSE "AVAILABLE") >>

ScriptedResponse ==
    PostResponse("trk", [kind |-> "data", rows |-> ScriptRows(trk.attempt)])

NextScript ==
    \/ TrkCall
    \/ TrkStart
    \/ TrkDiscLookup
    \/ TrkDiscFetched
    \/ TrkCheckBurst
    \/ TrkSearchById
    \/ TrkTrackFetched
    \/ \E ok \in BOOLEAN : TrkTrackReport(ok)
    \/ TrkTrackWake
    \/ CsrfResponse("trk", TRUE)
    \/ ScriptedResponse

SpecScript == Init /\ [][NextScript]_vars

\* the tracking task of the scripted run while the clock runs and another
\* tracking task finds its account "B" (core.py 262) at one of its awaits
NextPeers ==
    \/ NextScript
    \/ Tick
    \/ ~Running /\ ActivateBurst("B")

SpecPeers == Init /\ [][NextPeers]_vars

\* continuous_monitor started on a file found on disk
InitMon ==
    /\ now = 0
    /\ CacheInit
    /\ ApiInit
    /\ capture_ttl = CACHE_TTL_NORMAL
    /\ op = [name |-> "init"]
    /\ fed = <<>>
    /\ ttl_trace = <<>>
    /\ SheetInit
    /\ trk = TrkIdle
    /\ disk = [r |-> TRUE, w |-> TRUE]
    /\ mon = MonIdle
    /\ monitored \in StartFiles

NextMon ==
    \/ Tick
    \/ MonCycle
    \/ MonFetched
    \/ MonEntry
    \/ \E ok \in BOOLEAN : MonNotified(ok)
    \/ MonFinish
    \/ MonWake
    \/ \E ok \in BOOLEAN : CsrfResponse("mon", ok)
    \/ \E r \in MonResults : PostResponse("mon", r)

SpecMon == InitMon /\ [][NextMon]_vars

\* the scheduler runs every task that can run, a sleep ends and a request
\* is answered (aiohttp's timeout turns silence into an exception)
MonFairness ==
    /\ WF_vars(MonCycle)
    /\ WF_vars(MonFetched)
    /\ WF_vars(MonEntry)
    /\ WF_vars(\E ok \in BOOLEAN : MonNotified(ok))
    /\ WF_vars(MonFinish)
    /\ WF_vars(MonWake)
    /\ WF_vars(\E ok \in BOOLEAN : CsrfResponse("mon", ok))
    /\ WF_vars(\E r \in MonResults : PostResponse("mon", r))

SpecMonLive == SpecMon /\ MonFairness

\* continuous_monitor while tracking tasks activate the burst session
\* (core.py 262) at their own awaits
NextPoll ==
    \/ NextMon
    \/ \E id \in AccountIds : ~Running /\ ActivateBurst(id)

SpecPoll == InitMon /\ [][NextPoll]_vars

\* the Sheets workers and the e-mails queued for them
NextSheets ==
    \/ \E email \in SheetEmails : AddToPending(email)
    \/ \E success \in BOOLEAN : PendingCycle(success)
    \/ \E success \in BOOLEAN : RetryCycle(success)

SpecSheets == Init /\ [][NextSheets]_vars

\* continuous_monitor on a file of ScanEntries entries
InitScan ==
    /\ now = 0
    /\ CacheInit
    /\ ApiInit
    /\ capture_ttl = CACHE_TTL_NORMAL
    /\ op = [name |-> "init"]
    /\ fed = <<>>
    /\ ttl_trace = <<>>
    /\ SheetInit
    /\ trk = TrkIdle
    /\ disk = [r |-> TRUE, w |-> TRUE]
    /\ mon = MonIdle
    /\ monitored = File(ScanEntries)

NextScan ==
    \/ MonCycle
    \/ MonFetched
    \/ MonEntry
    \/ \E ok \in BOOLEAN : MonNotified(ok)
    \/ MonFinish
    \/ MonWake
    \/ CsrfResponse("mon", TRUE)
    \/ \E rows \in ScanResponses :
           PostResponse("mon", [kind |-> "data", rows |-> rows])
    \/ \E r, w \in BOOLEAN : DiskFault(r, w)

SpecScan == InitScan /\ [][NextScan]_vars

\* the operations on the monitored file, which may fail to be read or
\* written
\* a tracking task and continuous_monitor side by side
NextBoth ==
    \/ NextScript
    \/ \E ok \in BOOLEAN : TrkDiscReport(ok)
    \/ TrkDiscWake
    \/ MonCycle
    \/ MonFetched
    \/ MonEntry
    \/ \E ok \in BOOLEAN : MonNotified(ok)
    \/ MonFinish
    \/ MonWake
    \/ CsrfResponse("mon", TRUE)
    \/ \E rows \in MonResponses :
           PostResponse("mon", [kind |-> "data", rows |-> rows])

SpecBoth == InitMon /\ [][NextBoth]_vars

NextDir ==
    \/ MonCycle
    \/ MonFetched
    \/ MonEntry
    \/ MonNotified(TRUE)
    \/ MonFinish
    \/ MonWake
    \/ CsrfResponse("mon", TRUE)
    \/ \E rows \in MonResponses :
           PostResponse("mon", [kind |-> "data", rows |-> rows])
    \/ \E id \in {"1", "2"} : Register(id, "AVAILABLE")
    \/ \E r, w \in BOOLEAN : DiskFault(r, w)

SpecDir == InitMon /\ [][NextDir]_vars

\* a tracking task registers an account while a cycle of continuous_monitor
\* is suspended at its fetch or at a notification
RegisterInCycle(account_id, status) ==
    /\ mon.pc \in {"fetch", "notify"}
    /\ Register(account_id, status)

\* continuous_monitor with tracking tasks that end during its cycles: one
\* for an account already in the file, one for a new account
NextJoin ==
    \/ NextMon
    \/ \E id \in {"1", "3"} : RegisterInCycle(id, "AVAILABLE")

SpecJoin == InitMon /\ [][NextJoin]_vars

(***************************************************************************)
(* Properties                                                              *)
(***************************************************************************)
Age == now - cache_timestamp

\* C1: is_cache_valid() is true exactly when a snapshot is present (cache
\* and cache_timestamp both set), its age is strictly below the current
\* cache_ttl and burst mode is inactive; it is false whenever burst mode is
\* active.
C1_ValidIff ==
    /\ is_cache_valid <=> ( /\ cache # None
                            /\ cache_timestamp # NoTime
                            /\ Age < cache_ttl
                            /\ ~burst_mode_active )
    /\ burst_mode_active => ~is_cache_valid

C1_FreshButBurst ==
    /\ burst_mode_active
    /\ cache # None /\ cache_timestamp # NoTime
    /\ Age < cache_ttl
    /\ ~is_cache_valid

\* C2: update_cache(X, success=True) sets the live snapshot and the
\* last-successful slot to X; update_cache(_, success=False) never changes
\* the last-successful slot, leaves the store empty when no success has
\* happened yet and otherwise leaves the live snapshot equal to the last
\* successfully stored snapshot.
C2_UpdateCache ==
    [][ op'.name = "update_cache" =>
          IF op'.success
          THEN /\ cache' = Some(op'.new_data)
               /\ last_successful_cache' = Some(op'.new_data)
          ELSE /\ last_successful_cache' = last_successful_cache
               /\ last_successful_cache = None => cache' = None
               /\ last_successful_cache # None =>
                      cache' = last_successful_cache ]_vars

C2_FailureAfterSuccess ==
    /\ op.name = "update_cache"
    /\ ~op.success
    /\ op.new_data = <<>>
    /\ Truthy(cache)
    /\ cache = last_successful_cache

\* the branches in which fetch_all_accounts_batch ends without a successful
\* fetch: no CSRF token, a status other than 200, 403 and 419, a 200
\* response without "data", an exception
FailedFetch == {"no_csrf", "status", "no_data", "exception"}

\* C3: whenever fetch_all_accounts_batch ends without a successful fetch and
\* a (non-empty) last successful snapshot exists, the live snapshot
\* afterwards and the value returned are that snapshot, also when the live
\* cache had been cleared by add_sender.
C3_StaleButAvailable ==
    [][ \A p \in Procs :
          ( /\ fx[p].pc # "done"
            /\ fx'[p].pc = "done"
            /\ fx'[p].how \in FailedFetch
            /\ Truthy(last_successful_cache) ) =>
              /\ cache' = last_successful_cache
              /\ fx'[p].ret = last_successful_cache[1] ]_vars

\* C4: adjust_ttl(n) with n >= 5 sets cache_ttl to CACHE_TTL_MIN, with
\* 2 <= n < 5 to CACHE_TTL_NORMAL, and in both cases resets
\* consecutive_quiet_cycles to 0, whatever the TTL and the counter were.
C4_BusyCycle ==
    op.name = "adjust_ttl" =>
        /\ op.n >= 5 =>
              cache_ttl = CACHE_TTL_MIN /\ consecutive_quiet_cycles = 0
        /\ (op.n >= 2 /\ op.n < 5) =>
              cache_ttl = CACHE_TTL_NORMAL /\ consecutive_quiet_cycles = 0

C4_MinAfterMax ==
    /\ op.name = "adjust_ttl"
    /\ op.n >= 5
    /\ op.old_ttl = CACHE_TTL_MAX
    /\ Len(fed) > 3
    /\ cache_ttl = CACHE_TTL_MIN
    /\ consecutive_quiet_cycles = 0

\* C9: the discovery phase has a budget of 15 sender lookups, so the
\* discovery failure is returned only when 15 lookups have returned no
\* record with a non-empty id.
C9_FifteenLookups ==
    (trk.pc = "done" /\ trk.account_id = NoId) => trk.email_lookups = 15

DiscoveryPcs == {"disc", "disc_fetch", "disc_report", "disc_sleep"}

\* C10: the first sender lookup that returns a record with a non-empty id
\* activates burst mode for exactly that id and ends discovery (any other
\* answer leaves the burst session alone and discovery going on); from then
\* on the protocol looks up by that id only, never by sender again.
C10_DiscoveryEnds ==
    [][ /\ ( /\ trk.pc \in {"disc", "disc_fetch"}
             /\ trk'.pc \notin {"disc", "disc_fetch"} ) =>
               LET info == get_account_by_email(cache', EMAIL)
               IN  IF info # None /\ info[1].idAccount # NoId
                   THEN /\ trk'.pc = "track"
                        /\ trk'.account_id = info[1].idAccount
                        /\ burst_mode_active'
                        /\ burst_targets' =
                               burst_targets \cup {info[1].idAccount}
                   ELSE /\ trk'.pc = "disc_report"
                        /\ trk'.account_id = NoId
                        /\ UNCHANGED burstVars
        /\ trk.account_id # NoId =>
               /\ trk'.account_id = trk.account_id
               /\ trk'.pc \notin DiscoveryPcs
               /\ op'.name # "search_sender_by_email"
               /\ op'.name # "get_account_by_email"
               /\ op'.name \in {"search_sender_by_id", "get_account_by_id"}
                      => op'.id = trk.account_id ]_vars

C10_SecondAttemptById ==
    /\ trk.account_id = "A"
    /\ trk.attempt = 2
    /\ op.name = "search_sender_by_id"
    /\ op.id = "A"
    /\ burst_mode_active
    /\ "A" \in burst_targets
    /\ burst_mode_started > 0

\* the last k inputs fed to adjust_ttl were all quiet (n < 2)
LastQuiet(f, k) ==
    /\ Len(f) >= k
    /\ \A i \in (Len(f) - k + 1)..Len(f) : f[i] < 2

\* C5: adjust_ttl(n) with n < 2 increments the quiet-cycle counter by one
\* and leaves cache_ttl unchanged unless the counter has reached 3, when
\* cache_ttl becomes CACHE_TTL_MAX; the TTL switches to MAX only after 3
\* consecutive quiet cycles, and [6, 1, 1, 1] yields [MIN, MIN, MIN, MAX].
C5_QuietCycle ==
    [][ /\ (op'.name = "adjust_ttl" /\ op'.n < 2) =>
              /\ consecutive_quiet_cycles' = consecutive_quiet_cycles + 1
              /\ cache_ttl' = IF consecutive_quiet_cycles' >= 3
                              THEN CACHE_TTL_MAX ELSE cache_ttl
        /\ (cache_ttl' = CACHE_TTL_MAX /\ cache_ttl # CACHE_TTL_MAX) =>
              LastQuiet(fed', 3)
        /\ fed' = <<6, 1, 1, 1>> =>
              ttl_trace' = <<CACHE_TTL_MIN, CACHE_TTL_MIN, CACHE_TTL_MIN,
                             CACHE_TTL_MAX>> ]_vars

C5_TraceFed ==
    /\ fed = <<6, 1, 1, 1>>
    /\ ttl_trace = <<CACHE_TTL_MIN, CACHE_TTL_MIN, CACHE_TTL_MIN,
                     CACHE_TTL_MAX>>
    /\ consecutive_quiet_cycles = 3

C7_Activate ==
    [][ op'.name = "activate_burst_mode" =>
          /\ burst_mode_active'
          /\ burst_targets' = burst_targets \cup {op'.id}
          /\ burst_mode_started' =
                IF burst_mode_active THEN burst_mode_started ELSE now
          /\ (burst_mode_active /\ op'.id \in burst_targets) =>
                UNCHANGED cacheVars ]_vars

C7_TwoTargetsOneTimer ==
    /\ op.name = "activate_burst_mode"
    /\ burst_mode_active
    /\ burst_targets = {"A", "B"}
    /\ burst_mode_started # NoTime
    /\ burst_mode_started < now

\* C8: check_burst_mode() while ACTIVE with elapsed time since
\* burst_mode_started >= BURST_MODE_DURATION sets the session INACTIVE,
\* empties burst_targets and clears burst_mode_started; while ACTIVE with
\* less elapsed time, and while INACTIVE, it changes nothing.
C8_CheckBurst ==
    [][ op'.name = "check_burst_mode" =>
          IF /\ burst_mode_active
             /\ (now - burst_mode_started) >= BURST_MODE_DURATION
          THEN /\ ~burst_mode_active'
               /\ burst_targets' = {}
               /\ burst_mode_started' = NoTime
          ELSE UNCHANGED cacheVars ]_vars

C8_Expired ==
    /\ op.name = "check_burst_mode"
    /\ op.off
    /\ ~burst_mode_active
    /\ burst_targets = {}
    /\ burst_mode_started = NoTime

Registered(account_id, email) ==
    \E i \in 1..Len(monitored) : monitored[i].key = Key(account_id, email)

\* C11: a tracking run whose successive lookups by id return LOGGING,
\* LOGGING, AVAILABLE records one change of status (LOGGING to AVAILABLE,
\* after the first observation), registers the account with
\* add_monitored_account and returns success on the third attempt.
C11_ScriptedRun ==
    ( /\ trk.attempt >= 3
      /\ trk.status = "AVAILABLE"
      /\ trk.pc # "track_report" ) =>
        /\ trk.attempt = 3
        /\ trk.pc = "done"
        /\ trk.ret = [ok |-> TRUE, info |-> trk.account_info]
        /\ trk.status_changes = <<"LOGGING", "AVAILABLE">>
        /\ Registered("A", EMAIL)

\* C13: on the first attempt whose looked-up status is final the protocol
\* registers the account if and only if the status is actionable, ends the
\* burst session for this id and returns (True, record), with no further
\* lookup.
C13_FinalStops ==
    [][ ( /\ trk.pc = "track_report"
          /\ trk.status \in FINAL_STATUSES
          /\ trk' # trk ) =>
            /\ trk'.pc = "done"
            /\ trk'.ret = [ok |-> TRUE, info |-> trk.account_info]
            /\ trk'.id_lookups = trk.id_lookups
            /\ ~burst_mode_active'
            /\ trk.account_id \notin burst_targets'
            /\ IF trk.status \in Actionable
               THEN Registered(trk.account_id, EMAIL)'
               ELSE monitored' = monitored ]_vars

\* C14: when the 40 attempts are used up without a final status, the
\* account is registered if and only if the last observed record exists
\* and its status is actionable, and then that record is returned; in every
\* other case the protocol reports failure.
C14_BudgetExhausted ==
    [][ ( /\ trk.pc = "track_sleep"
          /\ trk.attempt = max_attempts
          /\ trk'.pc = "done" ) =>
            LET usable == /\ trk.account_info # None
                          /\ Upper(trk.account_info[1].Status) \in Actionable
            IN  IF usable
                THEN /\ Registered(trk.account_id, EMAIL)'
                     /\ trk'.ret = [ok |-> TRUE, info |-> trk.account_info]
                ELSE /\ monitored' = monitored
                     /\ trk'.ret.ok = FALSE ]_vars

\* C15: on a 403 or 419 answer fetch_all_accounts_batch refreshes the token
\* and retries the fetch exactly once; a retry that is rejected too makes
\* no further request.
C15_OneRetry ==
    \A p \in Procs : fx[p].depth <= 1

\* the status a file holds for a key
StatusIn(file, key) ==
    LET hits == {i \in 1..Len(file) : file[i].key = key}
    IN  IF hits = {} THEN NoStatus
        ELSE file[MinOf(hits)].last_known_status

PersistedStatus(key) == StatusIn(monitored, key)

Mismatches(m) ==
    {i \in 1..Len(m.accounts) :
        LET info == ById(m.batch, m.accounts[i].account_id)
        IN  /\ m.accounts[i].account_id # NoId
            /\ info # None
            /\ m.accounts[i].last_known_status # NoStatus
            /\ Upper(info[1].Status)
                   # Upper(m.accounts[i].last_known_status)}

\* C16: a cycle with monitored entries that completes its loop calls
\* adjust_ttl exactly once, after all entries, with the number of status
\* mismatches of the cycle; with 5 or more the TTL is CACHE_TTL_MIN.
C16_AdjustOncePerCycle ==
    [][ /\ (mon.pc = "scan" /\ mon'.pc = "sleep") =>
              /\ mon.i = Len(mon.accounts) + 1
              /\ op'.name = "adjust_ttl"
              /\ op'.n = Cardinality(Mismatches(mon))
              /\ mon.ttl_calls = 0
              /\ mon'.ttl_calls = 1
              /\ op'.n >= 5 => cache_ttl' = CACHE_TTL_MIN
        /\ ~(mon.pc = "scan" /\ mon'.pc = "sleep") =>
              /\ UNCHANGED ttlVars
              /\ mon'.ttl_calls \in {0, mon.ttl_calls} ]_vars

C16_SevenChanges ==
    /\ mon.pc = "sleep"
    /\ op.name = "adjust_ttl"
    /\ op.n = 7
    /\ Len(mon.notes) = 7
    /\ mon.ttl_calls = 1
    /\ cache_ttl = CACHE_TTL_MIN

Keys(file) == {file[i].key : i \in 1..Len(file)}

\* C17: a monitored entry whose id is absent from the batch is skipped with
\* its record unchanged (no change count, no notification), and no
\* operation removes an entry: the set of monitored keys never shrinks.
C17_NeverShrinks ==
    [][ /\ ( /\ mon.pc = "scan"
             /\ mon.i <= Len(mon.accounts)
             /\ mon' # mon
             /\ ById(mon.batch, mon.accounts[mon.i].account_id) = None ) =>
               /\ monitored' = monitored
               /\ mon'.changes_detected = mon.changes_detected
               /\ mon'.notes = mon.notes
               /\ mon'.pc = "scan"
        /\ Keys(monitored) \subseteq Keys(monitored') ]_vars

\* C18: for a monitored entry present in the batch, a status mismatch adds
\* one to the change counter, persists the new status as last_known_status
\* and then sends one notification carrying (old status, new status); a
\* match sends nothing and refreshes last_check only.
C18_MismatchAndMatch ==
    [][ ( /\ mon.pc = "scan"
          /\ mon.i <= Len(mon.accounts)
          /\ mon' # mon
          /\ ById(mon.batch, mon.accounts[mon.i].account_id) # None
          /\ mon.accounts[mon.i].last_known_status # NoStatus
          /\ mon.accounts[mon.i].chat_id # NoChat ) =>
            LET data == mon.accounts[mon.i]
                new == Upper(ById(mon.batch, data.account_id)[1].Status)
                old == Upper(data.last_known_status)
            IN  IF new # old
                THEN /\ mon'.changes_detected = mon.changes_detected + 1
                     /\ StatusIn(monitored', data.key) = new
                     /\ mon'.pc = "notify"
                     /\ mon'.notes = Append(mon.notes,
                            [key |-> data.key, old |-> old, new |-> new])
                ELSE /\ mon'.changes_detected = mon.changes_detected
                     /\ mon'.notes = mon.notes
                     /\ mon'.pc = "scan"
                     /\ Len(monitored') = Len(monitored)
                     /\ \A i \in 1..Len(monitored) :
                            [monitored'[i] EXCEPT !.last_check = 0] =
                            [monitored[i] EXCEPT !.last_check = 0] ]_vars

\* C19: the sleep chosen at the end of a cycle follows the statuses as
\* persisted after the cycle's updates: short if any is LOGGING, else medium
\* if any is AVAILABLE or ACTIVE, else long.
C19_BandOfCurrentStatuses ==
    (mon.pc = "sleep" /\ mon.band \in {"short", "medium", "long"}) =>
        mon.band = Band(monitored)

\* C20: a failure raised while one entry is processed does not abort the
\* cycle: the loop goes on with the next entry, every entry is processed
\* and adjust_ttl is called at the end.
C20_FailureIsolated ==
    [][ /\ op'.name = "error" =>
              /\ mon'.pc = "scan"
              /\ mon'.i = mon.i + 1
              /\ mon'.raised = mon.raised \cup {mon.i}
        /\ (mon.pc = "scan" /\ mon'.pc = "sleep") =>
              /\ mon.i = Len(mon.accounts) + 1
              /\ op'.name = "adjust_ttl"
              /\ mon'.ttl_calls = 1 ]_vars

C20_SecondEntryAfterFailure ==
    /\ mon.pc = "sleep"
    /\ mon.raised = {1}
    /\ Len(mon.accounts) = 2
    /\ Len(mon.notes) = 1
    /\ mon.notes[1].key = mon.accounts[2].key
    /\ mon.ttl_calls = 1
    /\ op.name = "adjust_ttl"

\* C21: continuous_monitor never ends on a failure: the sleep that follows
\* a cycle-level exception ends in the start of another cycle, and under
\* fair scheduling a new cycle begins again and again (as long as the
\* model's count of quiet cycles has not reached its bound).
C21_NewCycleAlways ==
    /\ (mon.pc = "sleep" /\ mon.band = "backoff") ~> (mon.pc = "load")
    /\ []<>(mon.pc = "load" \/ consecutive_quiet_cycles >= MaxQuiet)

C21_CycleAfterBackoff ==
    /\ mon.pc = "load"
    /\ op = [name |-> "sleep", band |-> "backoff"]

\* C22: every poller cycle runs the burst expiry check before it reads the
\* cache: a tracking attempt or a continuous_monitor cycle that starts when
\* BURST_MODE_DURATION has elapsed since burst_mode_started leaves the
\* session inactive.
C22_ExpiryEveryCycle ==
    [][ LET expired == /\ burst_mode_active
                       /\ now - burst_mode_started >= BURST_MODE_DURATION
        IN  /\ (trk.pc = "track" /\ trk'.pc = "track_search" /\ expired) =>
                  ~burst_mode_active'
            /\ ( /\ mon.pc = "load"
                 /\ mon'.pc \in {"fetch", "scan"}
                 /\ expired ) =>
                  ~burst_mode_active' ]_vars

\* C23: a failed retry adds one to the attempts of every item of the batch
\* and keeps in the retry queue exactly the items with attempts below
\* max_retries, the others go to the failed queue; a successful retry
\* removes the batch; an item of the retry queue always has attempts below
\* max_retries.
C23_RetryBounded ==
    /\ \A i \in 1..Len(retry) : retry[i].attempts < max_retries
    /\ op.name = "retry_worker" =>
          IF op.success
          THEN retry = <<>>
          ELSE LET n == Len(op.batch)
                   stay == {i \in 1..n : op.batch[i].attempts + 1 < max_retries}
               IN  /\ Len(retry) = Cardinality(stay)
                   /\ \A i \in 1..Len(retry) :
                          \E j \in stay :
                              /\ retry[i].email = op.batch[j].email
                              /\ retry[i].attempts = op.batch[j].attempts + 1
                   /\ Len(failed) >= n - Cardinality(stay)
                   /\ \A j \in (1..n) \ stay :
                          \E k \in 1..Len(failed) :
                              /\ failed[k].email = op.batch[j].email
                              /\ failed[k].attempts = max_retries

C23_GivenUp ==
    /\ op.name = "retry_worker"
    /\ ~op.success
    /\ Len(op.batch) = 2
    /\ Len(retry) = 1
    /\ Len(failed) = 1
    /\ failed[1].attempts = max_retries

\* C24: cache_ttl is always one of the three levels, CACHE_TTL_NORMAL at
\* the start, and it is CACHE_TTL_MAX exactly when
\* consecutive_quiet_cycles >= 3.
C24_ThreeLevels ==
    /\ cache_ttl \in {CACHE_TTL_MIN, CACHE_TTL_NORMAL, CACHE_TTL_MAX}
    /\ op.name = "init" => cache_ttl = CACHE_TTL_NORMAL
    /\ cache_ttl = CACHE_TTL_MAX <=> consecutive_quiet_cycles >= 3

C24_MaxAfterThreeQuiet ==
    /\ op.name = "adjust_ttl"
    /\ op.old_ttl = CACHE_TTL_MIN
    /\ cache_ttl = CACHE_TTL_MAX
    /\ consecutive_quiet_cycles = 3

TrackPcs ==
    {"track", "track_search", "track_fetch", "track_report", "track_sleep"}

\* how far a run of wait_for_status_change has come: the phase, the number
\* of the attempt, the position inside the attempt
Rank(t) ==
    CASE t.pc = "idle" -> 0
      [] t.pc = "start" -> 1
      [] t.pc = "disc" -> 10 * t.initial_attempt + 1
      [] t.pc = "disc_fetch" -> 10 * t.initial_attempt + 2
      [] t.pc = "disc_report" -> 10 * t.initial_attempt + 3
      [] t.pc = "disc_sleep" -> 10 * t.initial_attempt + 4
      [] t.pc = "track" -> 200 + 10 * t.attempt + 1
      [] t.pc = "track_search" -> 200 + 10 * t.attempt + 2
      [] t.pc = "track_fetch" -> 200 + 10 * t.attempt + 3
      [] t.pc = "track_report" -> 200 + 10 * t.attempt + 4
      [] t.pc = "track_sleep" -> 200 + 10 * t.attempt + 5
      [] OTHER -> 1000

\* C25: a run of wait_for_status_change terminates: every step of the run
\* takes it further (attempt numbers only grow, by one), there are at most
\* max_attempts tracking attempts with at most one lookup by id each, and
\* on every exit from the tracking phase the burst session is inactive and
\* the tracked id is not a burst target.
C25_Terminates ==
    [][ /\ trk' # trk => Rank(trk') > Rank(trk)
        /\ trk'.attempt \in {trk.attempt, trk.attempt + 1}
        /\ trk'.attempt <= max_attempts
        /\ trk'.id_lookups <= trk'.attempt
        /\ trk'.id_lookups \in {trk.id_lookups, trk.id_lookups + 1}
        /\ (trk.pc \in TrackPcs /\ trk'.pc \notin TrackPcs) =>
              /\ trk'.pc = "done"
              /\ ~burst_mode_active'
              /\ trk.account_id \notin burst_targets' ]_vars

C25_LastAttemptRaised ==
    /\ trk.pc = "done"
    /\ trk.attempt = max_attempts
    /\ trk.id_lookups = max_attempts
    /\ trk.account_info # None
    /\ trk.interval = 20
    /\ trk.ret.ok
    /\ ~burst_mode_active
    /\ trk.account_id \notin burst_targets

C27_IntervalFollowsSession ==
    [][ ( /\ trk.pc = "track_report"
          /\ trk'.pc = "track_sleep"
          /\ op'.ok ) =>
            trk'.interval =
                IF burst_mode_active /\ trk.account_id \in burst_targets
                THEN BURST_MODE_INTERVAL
                ELSE IF trk.status \in TRANSITIONAL_STATUSES THEN 40 ELSE 50
      ]_vars

\* C28: a cache consumer (a lookup by id or by sender, or
\* fetch_all_accounts_batch without force_refresh) sends a request to the
\* service if and only if the cache is invalid when it is called, whatever
\* the snapshot holds.
C28_RemoteIffInvalid ==
    [][ /\ \A p \in Callers :
              ( /\ fx[p].pc = "idle"
                /\ op'.name = "fetch_all_accounts_batch"
                /\ op'.p = p
                /\ ~op'.force_refresh ) =>
                  (fx'[p].pc \in {"csrf", "post"} <=> ~is_cache_valid)
        /\ (trk.pc \in {"disc", "track_search"} /\ trk' # trk) =>
              (fx'["trk"].pc \in {"csrf", "post"} <=> ~is_cache_valid)
        /\ (mon.pc = "load" /\ mon'.pc \in {"fetch", "scan"}) =>
              (fx'["mon"].pc \in {"csrf", "post"} <=> ~is_cache_valid) ]_vars

\* C29: the burst controller is always in one of its two well-formed
\* states: inactive with no targets and no start time, or active with a
\* start time; no id stays in burst_targets while the session is inactive.
C29_BurstWellFormed ==
    \/ /\ ~burst_mode_active
       /\ burst_targets = {}
       /\ burst_mode_started = NoTime
    \/ /\ burst_mode_active
       /\ burst_mode_started # NoTime

\* C30: the live snapshot is absent or is the last successful snapshot;
\* cache and cache_timestamp are both absent, or are the data and the
\* capture time of one successful update.
C30_SnapshotCoherent ==
    /\ cache = None <=> cache_timestamp = NoTime
    /\ last_successful_cache = None <=> last_successful_timestamp = NoTime
    /\ cache # None =>
          /\ cache = last_successful_cache
          /\ cache_timestamp = last_successful_timestamp

C30_RestoredAfterFailure ==
    /\ op.name = "updateSenderPage"
    /\ fx[op.p].how = "exception"
    /\ cache # None
    /\ cache[1] # <<>>
    /\ cache_timestamp < now
    /\ cache = last_successful_cache

\* add_sender has cleared the live snapshot and no fetch has stored one
\* since: cache is None while a last successful snapshot exists (cache is
\* None otherwise only before the first successful fetch)
Invalidated == cache = None /\ last_successful_cache # None

\* a fetch_all_accounts_batch call of p ends in the branch that stored the
\* parsed response
FetchSucceeds(p) ==
    fx[p].pc = "post" /\ fx'[p].pc = "done" /\ fx'[p].how = "ok"

\* C31: once a successful add_sender has invalidated the cache, no step
\* other than a successful fetch makes is_cache_valid() true again or lets a
\* lookup find a record of the pre-add snapshot; in particular not a failed
\* fetch, which restores the last successful snapshot with its timestamp.
C31_InvalidUntilRefetch ==
    [][ ( /\ Invalidated
          /\ ~ \E p \in Procs : FetchSucceeds(p) ) =>
            /\ ~is_cache_valid'
            /\ \A account_id \in AccountIds :
                  get_account_by_id(cache', account_id) = None ]_vars

\* C32: a progress report that raises is purely observational: when the
\* lookup of attempt k returned a final status, the attempt ends as it does
\* with a working reporter: the account is registered if its status is
\* actionable, the burst session is ended for the id, and the protocol
\* returns success with the record on attempt k.
C32_ReportIsObservational ==
    [][ ( /\ trk.pc = "track_report"
          /\ trk.status \in FINAL_STATUSES
          /\ op'.name = "edit_text"
          /\ ~op'.ok ) =>
            /\ trk'.pc = "done"
            /\ trk'.attempt = trk.attempt
            /\ trk'.ret = [ok |-> TRUE, info |-> trk.account_info]
            /\ ~burst_mode_active'
            /\ trk.account_id \notin burst_targets'
            /\ trk.status \in Actionable =>
                  \E i \in 1..Len(monitored') :
                      monitored'[i].key = Key(trk.account_id, EMAIL) ]_vars

\* C33: an entry registered by a tracking task while a cycle of
\* continuous_monitor is suspended is not lost or overwritten: the
\* registration leaves the entry in the file, no later step removes an
\* entry, and when the cycle finishes the file holds every status the cycle
\* persisted, under every interleaving at the suspension points.
C33_RegistrationAndUpdatesKept ==
    [][ /\ Keys(monitored) \subseteq Keys(monitored')
        /\ op'.name = "add_monitored_account" =>
              Key(op'.id, Email(op'.id)) \in Keys(monitored')
        /\ (mon.pc = "scan" /\ mon'.pc = "sleep") =>
              \A n \in 1..Len(mon.notes) :
                  StatusIn(monitored', mon.notes[n].key) = mon.notes[n].new
      ]_vars

\* C34: when two fetches are in flight together, the data of the request
\* sent later wins: the answer to a request that arrives after the data of
\* a later request has been stored does not replace the live snapshot.
C34_LaterIssuedWins ==
    [][ \A p \in Procs :
          ( /\ fx[p].pc = "post"
            /\ fx[p].superseded
            /\ fx'[p].pc = "done" ) =>
              cache' = cache ]_vars

=============================================================================
